---------------------------- MODULE Spec2Model ----------------------------
(***************************************************************************)
(* A model of the ship catalogue of naev (src/src/ship.c): the slot        *)
(* parser ship_parseSlot, the ship parser ship_parse, the catalogue load   *)
(* ships_load and the lookups ship_get, ship_getW and ship_existsCase.     *)
(*                                                                         *)
(* C strings are TLA+ strings; the null pointer is the marker NULL.  An    *)
(* XML node is a record [type, name, attrs, content, children]: attrs is a *)
(* function from the names of the attributes present to their text,        *)
(* content is the text of the node (NULL when it has none) and children is *)
(* the sequence of child nodes in document order.                          *)
(***************************************************************************)
EXTENDS Integers, Sequences, FiniteSets, TLC

VARIABLES
    pc,          \* position of the program: "start", "loaded", "failed", "crashed", ...
    doc,         \* the parsed XML document handed to ships_load
    ship_stack,  \* the catalogue: NULL or a sequence of Ship records
    log,         \* the warnings and errors recorded so far, oldest first
    ret,         \* the value returned by the last call
    ncalls,      \* number of lookups done since the load
    released,    \* the catalogue the last ships_free released, NULL before
    parse_in,    \* the ship node handed to ship_parse
    parse_out,   \* what ship_parse left: the ship, its warnings, its return value
    slot_in,     \* the arguments handed to ship_parseSlot
    slot_out     \* what ship_parseSlot left: the slot, its warnings, its return value

vars == <<pc, doc, ship_stack, log, ret, ncalls, released, parse_in, parse_out, slot_in, slot_out>>

-----------------------------------------------------------------------------
(* Pointers, strings and the C library *)

NULL == "<NULL>"

\* the characters of a string of the model's universe of names
Chars(s) ==
    CASE s = "Yacht" -> <<"Y", "a", "c", "h", "t">>
      [] s = "YACHT" -> <<"Y", "A", "C", "H", "T">>
      [] s = "yacht" -> <<"y", "a", "c", "h", "t">>
      [] s = "Llama" -> <<"L", "l", "a", "m", "a">>
      [] s = "Lla"   -> <<"L", "l", "a">>
      [] OTHER       -> <<s>>

\* the character code of a letter
Code(c) ==
    CASE c = "A" -> 65  [] c = "C" -> 67  [] c = "H" -> 72  [] c = "L" -> 76
      [] c = "T" -> 84  [] c = "Y" -> 89  [] c = "a" -> 97  [] c = "c" -> 99
      [] c = "h" -> 104 [] c = "l" -> 108 [] c = "m" -> 109 [] c = "t" -> 116
      [] c = "y" -> 121 [] OTHER -> 63

tolower(n) == IF n >= 65 /\ n <= 90 THEN n + 32 ELSE n

RECURSIVE CmpCodes(_, _, _)
\* compares two sequences of character codes from position i on
CmpCodes(a, b, i) ==
    IF i > Len(a) /\ i > Len(b) THEN 0
    ELSE IF i > Len(a) THEN -1
    ELSE IF i > Len(b) THEN 1
    ELSE IF a[i] < b[i] THEN -1
    ELSE IF a[i] > b[i] THEN 1
    ELSE CmpCodes(a, b, i + 1)

Codes(s) == [i \in 1..Len(Chars(s)) |-> Code(Chars(s)[i])]

LowerCodes(s) == [i \in 1..Len(Chars(s)) |-> tolower(Code(Chars(s)[i]))]

\* strcmp on two non-null strings: the sign of the first difference
strcmp(a, b) == IF a = b THEN 0 ELSE CmpCodes(Codes(a), Codes(b), 1)

\* strcasecmp on two non-null strings
strcasecmp(a, b) == CmpCodes(LowerCodes(a), LowerCodes(b), 1)

\* atof / atoi of the decimal texts that occur in the documents
atof(s) ==
    CASE s = "0" -> 0 [] s = "1" -> 1 [] s = "2" -> 2 [] s = "3" -> 3
      [] s = "5" -> 5 [] s = "50" -> 50 [] s = "90" -> 90 [] s = "100" -> 100
      [] OTHER -> 0

-----------------------------------------------------------------------------
(* XML nodes (nxml.h) *)

Node(type, name, attrs, content, children) ==
    [type |-> type, name |-> name, attrs |-> attrs, content |-> content,
     children |-> children]

NoAttrs == [a \in {} |-> NULL]

Elem(name, attrs, content, children) == Node("element", name, attrs, content, children)

TextNode == Node("text", "text", NoAttrs, " ", <<>>)

\* xml_isNode(n,s): n is an element named s
xml_isNode(n, s) == n.type = "element" /\ n.name = s

\* xml_onlyNodes(n) continues the loop on anything that is not an element
xml_skipped(n) == n.type # "element"

\* xmlr_attr(n,s,a): the text of attribute s, NULL when the node has none
xmlr_attr(n, s) == IF s \in DOMAIN n.attrs THEN n.attrs[s] ELSE NULL

\* xml_get(n): the text of the node
xml_get(n) == n.content

-----------------------------------------------------------------------------
(* Enumerations *)

SHIP_CLASS_NULL == 0
SHIP_CLASS_YACHT == 1
SHIP_CLASS_LUXURY_YACHT == 2
SHIP_CLASS_CRUISE_SHIP == 3
SHIP_CLASS_COURIER == 4
SHIP_CLASS_ARMOURED_TRANSPORT == 5
SHIP_CLASS_FREIGHTER == 6
SHIP_CLASS_BULK_CARRIER == 7
SHIP_CLASS_SCOUT == 8
SHIP_CLASS_FIGHTER == 9
SHIP_CLASS_BOMBER == 10
SHIP_CLASS_CORVETTE == 11
SHIP_CLASS_DESTROYER == 12
SHIP_CLASS_CRUISER == 13
SHIP_CLASS_CARRIER == 14
SHIP_CLASS_DRONE == 15
SHIP_CLASS_HEAVY_DRONE == 16
SHIP_CLASS_MOTHERSHIP == 17

ShipClass == SHIP_CLASS_NULL..SHIP_CLASS_MOTHERSHIP

OUTFIT_SLOT_NULL == "OUTFIT_SLOT_NULL"
OUTFIT_SLOT_STRUCTURE == "OUTFIT_SLOT_STRUCTURE"
OUTFIT_SLOT_UTILITY == "OUTFIT_SLOT_UTILITY"
OUTFIT_SLOT_WEAPON == "OUTFIT_SLOT_WEAPON"

OutfitSlotType == {OUTFIT_SLOT_STRUCTURE, OUTFIT_SLOT_UTILITY, OUTFIT_SLOT_WEAPON}

OUTFIT_SLOT_SIZE_NA == "OUTFIT_SLOT_SIZE_NA"
OUTFIT_SLOT_SIZE_LIGHT == "OUTFIT_SLOT_SIZE_LIGHT"
OUTFIT_SLOT_SIZE_MEDIUM == "OUTFIT_SLOT_SIZE_MEDIUM"
OUTFIT_SLOT_SIZE_HEAVY == "OUTFIT_SLOT_SIZE_HEAVY"

\* a warning or error message with its argument
W(msg, arg) == [msg |-> msg, arg |-> arg]


-----------------------------------------------------------------------------
(* Doubles.  A double is kept exactly as n/d * pi^pi * sqrt(2)^sqrt2, so   *)
(* that a unit conversion is a computation and not the identity.           *)

RECURSIVE Gcd(_, _)
Gcd(a, b) == IF b = 0 THEN a ELSE Gcd(b, a % b)

Abs(x) == IF x < 0 THEN -x ELSE x

Norm(x) ==
    IF x.n = 0 THEN [n |-> 0, d |-> 1, pi |-> 0, sqrt2 |-> 0]
    ELSE LET g == Gcd(Abs(x.n), x.d)
             h == IF x.sqrt2 >= 2 THEN 2 ELSE 1
         IN  LET m == (x.n * h) \div g
                 e == x.d \div g
                 k == Gcd(Abs(m), e)
             IN  [n |-> m \div k, d |-> e \div k, pi |-> x.pi,
                  sqrt2 |-> IF x.sqrt2 >= 2 THEN x.sqrt2 - 2 ELSE x.sqrt2]

Dbl(v) == [n |-> v, d |-> 1, pi |-> 0, sqrt2 |-> 0]

DblMul(x, y) ==
    Norm([n |-> x.n * y.n, d |-> x.d * y.d, pi |-> x.pi + y.pi,
          sqrt2 |-> x.sqrt2 + y.sqrt2])

DblDiv(x, k) == Norm([x EXCEPT !.d = x.d * k])

M_SQRT2 == [n |-> 1, d |-> 1, pi |-> 0, sqrt2 |-> 1]

M_PI == [n |-> 1, d |-> 1, pi |-> 1, sqrt2 |-> 0]

-----------------------------------------------------------------------------
(* Collaborators of the slot parser (outfit.c) *)

\* the outfits of the outfit catalogue
KnownOutfits == {"Laser Cannon"}

\* outfit_get(name): the outfit of that name, NULL when there is none
outfit_get(name) == IF name \in KnownOutfits THEN name ELSE NULL

\* outfit_toSlotSize(s): the slot size a "size" attribute names
outfit_toSlotSize(s) ==
    CASE s = "Large"  -> OUTFIT_SLOT_SIZE_HEAVY
      [] s = "Medium" -> OUTFIT_SLOT_SIZE_MEDIUM
      [] s = "Small"  -> OUTFIT_SLOT_SIZE_LIGHT
      [] OTHER        -> OUTFIT_SLOT_SIZE_NA

-----------------------------------------------------------------------------
(* ship_parseSlot *)

\* a ShipOutfitSlot as calloc leaves it
ZeroSlot ==
    [slot     |-> [property |-> NULL, exclusive |-> 0,
                   size |-> OUTFIT_SLOT_SIZE_NA, type |-> OUTFIT_SLOT_NULL],
     mount    |-> [x |-> Dbl(0), y |-> Dbl(0), h |-> Dbl(0)],
     required |-> 0,
     data     |-> NULL]

\* SlotSizeOfClass with SHIP_CLASS_ARMOURED_TRANSPORT left out of the medium set
SlotSizeOfClass_noArmoured(class) ==
    IF class \in {SHIP_CLASS_BULK_CARRIER, SHIP_CLASS_CRUISER,
                  SHIP_CLASS_CARRIER, SHIP_CLASS_MOTHERSHIP}
    THEN OUTFIT_SLOT_SIZE_HEAVY
    ELSE IF class \in {SHIP_CLASS_CRUISE_SHIP, SHIP_CLASS_FREIGHTER,
                       SHIP_CLASS_DESTROYER, SHIP_CLASS_CORVETTE,
                       SHIP_CLASS_HEAVY_DRONE}
    THEN OUTFIT_SLOT_SIZE_MEDIUM
    ELSE OUTFIT_SLOT_SIZE_LIGHT

\* the size of a slot that declares none, from the class of the ship
SlotSizeOfClass(class) ==
    IF class \in {SHIP_CLASS_BULK_CARRIER, SHIP_CLASS_CRUISER,
                  SHIP_CLASS_CARRIER, SHIP_CLASS_MOTHERSHIP}
    THEN OUTFIT_SLOT_SIZE_HEAVY
    ELSE IF class \in {SHIP_CLASS_CRUISE_SHIP, SHIP_CLASS_FREIGHTER,
                       SHIP_CLASS_DESTROYER, SHIP_CLASS_CORVETTE,
                       SHIP_CLASS_HEAVY_DRONE, SHIP_CLASS_ARMOURED_TRANSPORT}
    THEN OUTFIT_SLOT_SIZE_MEDIUM
    ELSE OUTFIT_SLOT_SIZE_LIGHT

\* "Parse size."
SlotBaseSize(temp, node) ==
    IF xmlr_attr(node, "size") # NULL
    THEN outfit_toSlotSize(xmlr_attr(node, "size"))
    ELSE SlotSizeOfClass(temp.class)

\* the steps of ship_parseSlot work on s = [slot, warns]: the slot so far
\* and the warnings recorded so far

\* the warning for a missing mount attribute, <<>> when the attribute is there
MountMissing(buf, a) ==
    IF buf = NULL THEN <<W("missing element of 'weapon' slot", a)>> ELSE <<>>

\* SlotMount with a missing 'y' taking the value read for 'x'
SlotMount_yFromX(temp, s, type, node) ==
    IF type = OUTFIT_SLOT_WEAPON
    THEN [slot  |-> [s.slot EXCEPT
                        !.mount.x = IF xmlr_attr(node, "x") # NULL
                                    THEN Dbl(atof(xmlr_attr(node, "x"))) ELSE @,
                        !.mount.y = IF xmlr_attr(node, "y") # NULL
                                    THEN DblMul(Dbl(atof(xmlr_attr(node, "y"))), M_SQRT2)
                                    ELSE IF xmlr_attr(node, "x") # NULL
                                    THEN Dbl(atof(xmlr_attr(node, "x"))) ELSE @,
                        !.mount.h = IF xmlr_attr(node, "h") # NULL
                                    THEN Dbl(atof(xmlr_attr(node, "h"))) ELSE @],
          warns |-> s.warns \o MountMissing(xmlr_attr(node, "x"), "x")
                            \o MountMissing(xmlr_attr(node, "y"), "y")
                            \o MountMissing(xmlr_attr(node, "h"), "h")]
    ELSE s

\* "Get mount point for weapons."
SlotMount(temp, s, type, node) ==
    IF type = OUTFIT_SLOT_WEAPON
    THEN [slot  |-> [s.slot EXCEPT
                        !.mount.x = IF xmlr_attr(node, "x") # NULL
                                    THEN Dbl(atof(xmlr_attr(node, "x"))) ELSE @,
                        !.mount.y = IF xmlr_attr(node, "y") # NULL
                                    THEN DblMul(Dbl(atof(xmlr_attr(node, "y"))), M_SQRT2)
                                    ELSE @,
                        !.mount.h = IF xmlr_attr(node, "h") # NULL
                                    THEN Dbl(atof(xmlr_attr(node, "h"))) ELSE @],
          warns |-> s.warns \o MountMissing(xmlr_attr(node, "x"), "x")
                            \o MountMissing(xmlr_attr(node, "y"), "y")
                            \o MountMissing(xmlr_attr(node, "h"), "h")]
    ELSE s

\* SlotProperty with the exception variant winning a conflict
SlotProperty_excWins(temp, s, node) ==
    IF xmlr_attr(node, "prop_exc") # NULL
    THEN [slot  |-> [s.slot EXCEPT !.slot.property = xmlr_attr(node, "prop_exc"),
                                   !.slot.exclusive = 1],
          warns |-> IF xmlr_attr(node, "prop") # NULL
                    THEN Append(s.warns,
                                W("slot with both 'prop' and 'prop_exc' defined", "prop"))
                    ELSE s.warns]
    ELSE [s EXCEPT !.slot.slot.property = xmlr_attr(node, "prop")]

\* "Parse property."
SlotProperty(temp, s, node) ==
    IF xmlr_attr(node, "prop_exc") # NULL
    THEN IF xmlr_attr(node, "prop") # NULL
         THEN [slot  |-> [s.slot EXCEPT !.slot.property = xmlr_attr(node, "prop")],
               warns |-> Append(s.warns,
                                W("slot with both 'prop' and 'prop_exc' defined", "prop"))]
         ELSE [s EXCEPT !.slot.slot.property = xmlr_attr(node, "prop_exc"),
                        !.slot.slot.exclusive = 1]
    ELSE [s EXCEPT !.slot.slot.property = xmlr_attr(node, "prop")]

\* "Parsed required attribute.": presence alone sets the flag
SlotRequired(s, node) ==
    IF xmlr_attr(node, "required") # NULL THEN [s EXCEPT !.slot.required = 1] ELSE s

\* "Parse default outfit."
SlotDefaultOutfit(temp, s, node) ==
    IF xml_get(node) # NULL
    THEN [slot  |-> [s.slot EXCEPT !.data = outfit_get(xml_get(node))],
          warns |-> IF outfit_get(xml_get(node)) = NULL
                    THEN Append(s.warns, W("default outfit does not exist", xml_get(node)))
                    ELSE s.warns]
    ELSE s

\* "Set stuff." and return 0
SlotStamp(s, base_size, type) ==
    [slot  |-> [s.slot EXCEPT !.slot.size = base_size, !.slot.type = type],
     warns |-> s.warns,
     ret   |-> 0]

\* ship_parseSlot( temp, slot, type, node ): the slot as the call leaves it,
\* the warnings it records and the value it returns
ship_parseSlot(temp, slot, type, node) ==
    SlotStamp(
        SlotDefaultOutfit(temp,
            SlotRequired(
                SlotProperty(temp,
                    SlotMount(temp, [slot |-> slot, warns |-> <<>>], type, node),
                    node),
                node),
            node),
        SlotBaseSize(temp, node), type)

-----------------------------------------------------------------------------
(* Ship classes *)

\* ship_class( s ): the display string of a class
ship_class(class) ==
    CASE class = SHIP_CLASS_NULL -> "NULL"
      [] class = SHIP_CLASS_YACHT -> "Yacht"
      [] class = SHIP_CLASS_LUXURY_YACHT -> "Luxury Yacht"
      [] class = SHIP_CLASS_CRUISE_SHIP -> "Cruise Ship"
      [] class = SHIP_CLASS_COURIER -> "Courier"
      [] class = SHIP_CLASS_ARMOURED_TRANSPORT -> "Armoured Transport"
      [] class = SHIP_CLASS_FREIGHTER -> "Freighter"
      [] class = SHIP_CLASS_BULK_CARRIER -> "Bulk Carrier"
      [] class = SHIP_CLASS_SCOUT -> "Scout"
      [] class = SHIP_CLASS_FIGHTER -> "Fighter"
      [] class = SHIP_CLASS_BOMBER -> "Bomber"
      [] class = SHIP_CLASS_CORVETTE -> "Corvette"
      [] class = SHIP_CLASS_DESTROYER -> "Destroyer"
      [] class = SHIP_CLASS_CRUISER -> "Cruiser"
      [] class = SHIP_CLASS_CARRIER -> "Carrier"
      [] class = SHIP_CLASS_DRONE -> "Drone"
      [] class = SHIP_CLASS_HEAVY_DRONE -> "Heavy Drone"
      [] class = SHIP_CLASS_MOTHERSHIP -> "Mothership"
      [] OTHER -> "Unknown"

\* what strcmp and strcasecmp do on a null pointer: the behaviour is
\* undefined, so the call may crash, or go on as if the strings were equal,
\* or go on as if they differed
NullCompare == {"crash", "equal", "differ"}

\* ship_classFromString without the comparison with "Armoured Transport"
ship_classFromString_noArmoured(str) ==
    CASE str = "Yacht" -> SHIP_CLASS_YACHT
      [] str = "Luxury Yacht" -> SHIP_CLASS_LUXURY_YACHT
      [] str = "Cruise Ship" -> SHIP_CLASS_CRUISE_SHIP
      [] str = "Courier" -> SHIP_CLASS_COURIER
      [] str = "Freighter" -> SHIP_CLASS_FREIGHTER
      [] str = "Bulk Carrier" -> SHIP_CLASS_BULK_CARRIER
      [] str = "Scout" -> SHIP_CLASS_SCOUT
      [] str = "Fighter" -> SHIP_CLASS_FIGHTER
      [] str = "Bomber" -> SHIP_CLASS_BOMBER
      [] str = "Corvette" -> SHIP_CLASS_CORVETTE
      [] str = "Destroyer" -> SHIP_CLASS_DESTROYER
      [] str = "Cruiser" -> SHIP_CLASS_CRUISER
      [] str = "Carrier" -> SHIP_CLASS_CARRIER
      [] str = "Drone" -> SHIP_CLASS_DRONE
      [] str = "Heavy Drone" -> SHIP_CLASS_HEAVY_DRONE
      [] str = "Mothership" -> SHIP_CLASS_MOTHERSHIP
      [] OTHER -> SHIP_CLASS_NULL

\* ship_classFromString( str ): the class a display string names
ship_classFromString(str) ==
    CASE str = "Yacht" -> SHIP_CLASS_YACHT
      [] str = "Luxury Yacht" -> SHIP_CLASS_LUXURY_YACHT
      [] str = "Cruise Ship" -> SHIP_CLASS_CRUISE_SHIP
      [] str = "Courier" -> SHIP_CLASS_COURIER
      [] str = "Freighter" -> SHIP_CLASS_FREIGHTER
      [] str = "Armoured Transport" -> SHIP_CLASS_ARMOURED_TRANSPORT
      [] str = "Bulk Carrier" -> SHIP_CLASS_BULK_CARRIER
      [] str = "Scout" -> SHIP_CLASS_SCOUT
      [] str = "Fighter" -> SHIP_CLASS_FIGHTER
      [] str = "Bomber" -> SHIP_CLASS_BOMBER
      [] str = "Corvette" -> SHIP_CLASS_CORVETTE
      [] str = "Destroyer" -> SHIP_CLASS_DESTROYER
      [] str = "Cruiser" -> SHIP_CLASS_CRUISER
      [] str = "Carrier" -> SHIP_CLASS_CARRIER
      [] str = "Drone" -> SHIP_CLASS_DRONE
      [] str = "Heavy Drone" -> SHIP_CLASS_HEAVY_DRONE
      [] str = "Mothership" -> SHIP_CLASS_MOTHERSHIP
      [] OTHER -> SHIP_CLASS_NULL

-----------------------------------------------------------------------------
(* Ship statistics (shipstats.c) *)

\* the stat names the stat registry knows
KnownStats == {"jump_delay", "cargo_mod"}

\* ss_statsInit( stats ): the compiled array with every stat at its default
ss_statsInit == [t \in KnownStats |-> 0]

\* ss_listFromXML( node ): <<the list element>> of a known stat, <<>> (NULL) otherwise
ss_listFromXML(node) ==
    IF node.name \in KnownStats
    THEN <<[type |-> node.name, d |-> atof(xml_get(node))]>>
    ELSE <<>>

RECURSIVE ss_statsModFromList(_, _)
\* ss_statsModFromList( stats, list ): the array with the list applied, head first
ss_statsModFromList(stats, list) ==
    IF list = <<>> THEN stats
    ELSE ss_statsModFromList(
             [stats EXCEPT ![Head(list).type] = @ + Head(list).d], Tail(list))

\* the text ss_statsListDesc renders for one element: nothing for a zero modifier
ss_statsDesc(ll) == IF ll.d = 0 THEN "" ELSE ll.type \o ";"

RECURSIVE ss_statsListDesc(_)
\* ss_statsListDesc( ll, buf, len ): the text rendered for the list, head
\* first; the texts of the model are shorter than the buffer of STATS_DESC_MAX
ss_statsListDesc(list) ==
    IF list = <<>> THEN ""
    ELSE ss_statsDesc(Head(list)) \o ss_statsListDesc(Tail(list))

-----------------------------------------------------------------------------
(* ship_parse *)

\* a Ship after memset( temp, 0, sizeof(Ship) ); a null array or list is <<>>
ZeroShip ==
    [name |-> NULL, base_type |-> NULL, class |-> SHIP_CLASS_NULL,
     price |-> 0, license |-> NULL, fabricator |-> NULL, description |-> NULL,
     thrust |-> Dbl(0), turn |-> Dbl(0), speed |-> Dbl(0),
     crew |-> 0, mass |-> Dbl(0), cpu |-> Dbl(0), fuel |-> 0, cap_cargo |-> Dbl(0),
     armour |-> Dbl(0), armour_regen |-> Dbl(0), shield |-> Dbl(0),
     shield_regen |-> Dbl(0), energy |-> Dbl(0), energy_regen |-> Dbl(0),
     dmg_absorb |-> Dbl(0),
     gfx_space |-> NULL, gfx_comm |-> NULL, mangle |-> Dbl(0),
     gui |-> NULL, sound |-> NULL,
     outfit_structure |-> <<>>, outfit_nstructure |-> 0,
     outfit_utility |-> <<>>, outfit_nutility |-> 0,
     outfit_weapon |-> <<>>, outfit_nweapon |-> 0,
     stats |-> <<>>, stats_array |-> <<>>, desc_stats |-> NULL]

\* the parser's state: the ship, the warnings and the debug lines recorded,
\* what a comparison with a null pointer does in this run (ub) and whether
\* the run has crashed, and the calls made to the stat collaborator and to
\* malloc and free for the description, oldest first
PState(ship, warns, debugs, ub, crashed, calls) ==
    [ship |-> ship, warns |-> warns, debugs |-> debugs, ub |-> ub, crashed |-> crashed,
     calls |-> calls]

Warn(st, msg, arg) == [st EXCEPT !.warns = Append(@, W(msg, arg))]

\* ship_classFromString( xml_get(node) ) on a class node without text: the
\* first strcmp reads a null str, so the run crashes, or every comparison
\* says equal (the first class) or every comparison says different
ClassFromNull(st) ==
    CASE st.ub = "crash" -> [st EXCEPT !.crashed = TRUE]
      [] st.ub = "equal" -> [st EXCEPT !.ship.class = SHIP_CLASS_YACHT]
      [] OTHER -> [st EXCEPT !.ship.class = SHIP_CLASS_NULL]

\* a pre-pass that resolves nothing
PrepassNode_none(st, node) == st

\* "Datat that must be loaded first.": the class pre-pass over one child
PrepassNode(st, node) ==
    IF ~xml_isNode(node, "class") THEN st
    ELSE IF xml_get(node) = NULL THEN ClassFromNull(st)
    ELSE [st EXCEPT !.ship.class = ship_classFromString(xml_get(node))]

\* the do-while of the class pre-pass, from child i on
RECURSIVE PrepassLoop(_, _, _)
PrepassLoop(st, nodes, i) ==
    IF i > Len(nodes) \/ st.crashed THEN st
    ELSE PrepassLoop(IF xml_skipped(nodes[i]) THEN st ELSE PrepassNode(st, nodes[i]),
                    nodes, i + 1)

\* ship_loadGFX( temp, buf, sx, sy ): the handles the graphics loader leaves
ship_loadGFX(ship, buf, sx, sy) ==
    [ship EXCEPT !.gfx_space = buf,
                 !.mangle = DblDiv(DblMul(Dbl(2), M_PI), sx * sy),
                 !.gfx_comm = buf \o "_comm"]

GfxNode(st, node) ==
    IF xml_get(node) = NULL THEN Warn(st, "GFX element is NULL", "GFX")
    ELSE [st EXCEPT !.ship = ship_loadGFX(@, xml_get(node),
              IF xmlr_attr(node, "sx") # NULL THEN atof(xmlr_attr(node, "sx")) ELSE 8,
              IF xmlr_attr(node, "sy") # NULL THEN atof(xmlr_attr(node, "sy")) ELSE 8)]

\* one child of the "movement" node
MovementNode(st, cur) ==
    IF xml_isNode(cur, "thrust") THEN [st EXCEPT !.ship.thrust = Dbl(atof(xml_get(cur)))]
    ELSE IF xml_isNode(cur, "turn") THEN [st EXCEPT !.ship.turn = Dbl(atof(xml_get(cur)))]
    ELSE IF xml_isNode(cur, "speed") THEN [st EXCEPT !.ship.speed = Dbl(atof(xml_get(cur)))]
    ELSE Warn(st, "unknown movement node", cur.name)

\* the do-while over the children of "movement", from child i on
RECURSIVE MovementLoop(_, _, _)
MovementLoop(st, nodes, i) ==
    IF i > Len(nodes) THEN st
    ELSE MovementLoop(IF xml_skipped(nodes[i]) THEN st ELSE MovementNode(st, nodes[i]),
                     nodes, i + 1)

\* one child of the "health" node
HealthNode(st, cur) ==
    IF xml_isNode(cur, "absorb")
    THEN [st EXCEPT !.ship.dmg_absorb = Dbl(atof(xml_get(cur)))]
    ELSE IF xml_isNode(cur, "armour")
    THEN [st EXCEPT !.ship.armour = Dbl(atof(xml_get(cur)))]
    ELSE IF xml_isNode(cur, "armour_regen")
    THEN [st EXCEPT !.ship.armour_regen = Dbl(atof(xml_get(cur)))]
    ELSE IF xml_isNode(cur, "shield")
    THEN [st EXCEPT !.ship.shield = Dbl(atof(xml_get(cur)))]
    ELSE IF xml_isNode(cur, "shield_regen")
    THEN [st EXCEPT !.ship.shield_regen = Dbl(atof(xml_get(cur)))]
    ELSE IF xml_isNode(cur, "energy")
    THEN [st EXCEPT !.ship.energy = Dbl(atof(xml_get(cur)))]
    ELSE IF xml_isNode(cur, "energy_regen")
    THEN [st EXCEPT !.ship.energy_regen = Dbl(atof(xml_get(cur)))]
    ELSE Warn(st, "unknown health node", cur.name)

\* the do-while over the children of "health", from child i on
RECURSIVE HealthLoop(_, _, _)
HealthLoop(st, nodes, i) ==
    IF i > Len(nodes) THEN st
    ELSE HealthLoop(IF xml_skipped(nodes[i]) THEN st ELSE HealthNode(st, nodes[i]),
                   nodes, i + 1)

\* one child of the "characteristics" node
CharacteristicsNode(st, cur) ==
    IF xml_isNode(cur, "crew") THEN [st EXCEPT !.ship.crew = atof(xml_get(cur))]
    ELSE IF xml_isNode(cur, "mass") THEN [st EXCEPT !.ship.mass = Dbl(atof(xml_get(cur)))]
    ELSE IF xml_isNode(cur, "cpu") THEN [st EXCEPT !.ship.cpu = Dbl(atof(xml_get(cur)))]
    ELSE IF xml_isNode(cur, "fuel") THEN [st EXCEPT !.ship.fuel = atof(xml_get(cur))]
    ELSE IF xml_isNode(cur, "cap_cargo")
    THEN [st EXCEPT !.ship.cap_cargo = Dbl(atof(xml_get(cur)))]
    ELSE Warn(st, "unknown characteristic node", cur.name)

\* the do-while over the children of "characteristics", from child i on
RECURSIVE CharacteristicsLoop(_, _, _)
CharacteristicsLoop(st, nodes, i) ==
    IF i > Len(nodes) THEN st
    ELSE CharacteristicsLoop(IF xml_skipped(nodes[i]) THEN st ELSE CharacteristicsNode(st, nodes[i]),
                            nodes, i + 1)

\* "First pass, get number of mounts.": one child of the "slots" node
SlotsCountNode(st, cur) ==
    IF xml_isNode(cur, "structure")
    THEN [st EXCEPT !.ship.outfit_nstructure = @ + 1]
    ELSE IF xml_isNode(cur, "utility")
    THEN [st EXCEPT !.ship.outfit_nutility = @ + 1]
    ELSE IF xml_isNode(cur, "weapon")
    THEN [st EXCEPT !.ship.outfit_nweapon = @ + 1]
    ELSE Warn(st, "unknown slot node", cur.name)

\* the do-while of the first pass, from child i on
RECURSIVE SlotsCountLoop(_, _, _)
SlotsCountLoop(st, nodes, i) ==
    IF i > Len(nodes) THEN st
    ELSE SlotsCountLoop(IF xml_skipped(nodes[i]) THEN st ELSE SlotsCountNode(st, nodes[i]),
                       nodes, i + 1)

\* calloc( n, sizeof(ShipOutfitSlot) )
calloc(n) == [i \in 1..n |-> ZeroSlot]

\* "Allocate the space." and l = m = h = 0: the parser's state with the
\* indices of the second pass
SlotsAlloc(st) ==
    [ship   |-> [st.ship EXCEPT !.outfit_structure = calloc(st.ship.outfit_nstructure),
                                !.outfit_utility   = calloc(st.ship.outfit_nutility),
                                !.outfit_weapon    = calloc(st.ship.outfit_nweapon)],
     warns  |-> st.warns,
     debugs |-> st.debugs,
     ub     |-> st.ub,
     crashed |-> st.crashed,
     calls  |-> st.calls,
     l |-> 0, m |-> 0, h |-> 0]

\* the state after ship_parseSlot left r in entry i + 1 of the array
SlotFilled(st, array, i, r) ==
    [st EXCEPT !.ship[array][i + 1] = r.slot, !.warns = @ \o r.warns]

\* SlotsFillNode without the m++ after a utility slot
SlotsFillNode_noInc(st, cur) ==
    IF xml_isNode(cur, "structure")
    THEN [SlotFilled(st, "outfit_structure", st.l,
                     ship_parseSlot(st.ship, st.ship.outfit_structure[st.l + 1],
                                    OUTFIT_SLOT_STRUCTURE, cur))
            EXCEPT !.l = @ + 1]
    ELSE IF xml_isNode(cur, "utility")
    THEN SlotFilled(st, "outfit_utility", st.m,
                    ship_parseSlot(st.ship, st.ship.outfit_utility[st.m + 1],
                                   OUTFIT_SLOT_UTILITY, cur))
    ELSE IF xml_isNode(cur, "weapon")
    THEN [SlotFilled(st, "outfit_weapon", st.h,
                     ship_parseSlot(st.ship, st.ship.outfit_weapon[st.h + 1],
                                    OUTFIT_SLOT_WEAPON, cur))
            EXCEPT !.h = @ + 1]
    ELSE st

\* "Second pass, initialize the mounts.": one child of the "slots" node
SlotsFillNode(st, cur) ==
    IF xml_isNode(cur, "structure")
    THEN [SlotFilled(st, "outfit_structure", st.l,
                     ship_parseSlot(st.ship, st.ship.outfit_structure[st.l + 1],
                                    OUTFIT_SLOT_STRUCTURE, cur))
            EXCEPT !.l = @ + 1]
    ELSE IF xml_isNode(cur, "utility")
    THEN [SlotFilled(st, "outfit_utility", st.m,
                     ship_parseSlot(st.ship, st.ship.outfit_utility[st.m + 1],
                                    OUTFIT_SLOT_UTILITY, cur))
            EXCEPT !.m = @ + 1]
    ELSE IF xml_isNode(cur, "weapon")
    THEN [SlotFilled(st, "outfit_weapon", st.h,
                     ship_parseSlot(st.ship, st.ship.outfit_weapon[st.h + 1],
                                    OUTFIT_SLOT_WEAPON, cur))
            EXCEPT !.h = @ + 1]
    ELSE st

\* the do-while of the second pass, from child i on
RECURSIVE SlotsFillLoop(_, _, _)
SlotsFillLoop(st, nodes, i) ==
    IF i > Len(nodes) THEN st
    ELSE SlotsFillLoop(IF xml_skipped(nodes[i]) THEN st ELSE SlotsFillNode(st, nodes[i]),
                      nodes, i + 1)

\* the parser's state once the second pass is over
SlotsDone(st) == PState(st.ship, st.warns, st.debugs, st.ub, st.crashed, st.calls)

\* the "slots" node: count, allocate, fill
SlotsNode(st, node) ==
    SlotsDone(SlotsFillLoop(
                       SlotsAlloc(SlotsCountLoop(st, node.children, 1)),
                       node.children, 1))

\* StatsListNode putting a known stat at the end of the list
StatsListNode_append(st, cur) ==
    IF ss_listFromXML(cur) # <<>>
    THEN [st EXCEPT !.ship.stats = @ \o ss_listFromXML(cur)]
    ELSE Warn(st, "unknown stat", cur.name)

\* one child of the "stats" node: a known stat is prepended to the list
StatsListNode(st, cur) ==
    IF ss_listFromXML(cur) # <<>>
    THEN [st EXCEPT !.ship.stats = ss_listFromXML(cur) \o @]
    ELSE Warn(st, "unknown stat", cur.name)

\* the do-while over the children of "stats", from child i on
RECURSIVE StatsLoop(_, _, _)
StatsLoop(st, nodes, i) ==
    IF i > Len(nodes) THEN st
    ELSE StatsLoop(IF xml_skipped(nodes[i]) THEN st ELSE StatsListNode(st, nodes[i]),
                  nodes, i + 1)

\* "Create description.": the text when there is a list and it renders to
\* something, NULL when it renders to nothing
StatsDesc(desc_stats, stats, text) ==
    IF stats # <<>> THEN (IF text # "" THEN text ELSE NULL) ELSE desc_stats

\* "Load array." and "Create description."
StatsCompile(ship) ==
    [ship EXCEPT !.stats_array = ss_statsModFromList(ss_statsInit, ship.stats),
                 !.desc_stats = StatsDesc(@, ship.stats, ss_statsListDesc(ship.stats))]

\* the calls of "Load array." and "Create description." for the list stats
StatsCalls(stats) ==
    <<"ss_statsInit", "ss_statsModFromList">>
    \o (IF stats = <<>> THEN <<>>
        ELSE <<"malloc", "ss_statsListDesc">>
             \o (IF ss_statsListDesc(stats) = "" THEN <<"free">> ELSE <<>>))

\* the parser's state after "Load array." and "Create description."
StatsCompiled(st) ==
    [st EXCEPT !.ship = StatsCompile(@), !.calls = @ \o StatsCalls(st.ship.stats)]

\* the "stats" node
StatsNode(st, node) == StatsCompiled(StatsLoop(st, node.children, 1))

\* "Load the rest of the data.": one child of the ship node
MainNode(st, node) ==
    IF xml_isNode(node, "GFX") THEN GfxNode(st, node)
    ELSE IF xml_isNode(node, "GUI") THEN [st EXCEPT !.ship.gui = xml_get(node)]
    ELSE IF xml_isNode(node, "sound") THEN [st EXCEPT !.ship.sound = xml_get(node)]
    ELSE IF xml_isNode(node, "base_type")
    THEN [st EXCEPT !.ship.base_type = xml_get(node)]
    ELSE IF xml_isNode(node, "class") THEN st
    ELSE IF xml_isNode(node, "price") THEN [st EXCEPT !.ship.price = atof(xml_get(node))]
    ELSE IF xml_isNode(node, "license") THEN [st EXCEPT !.ship.license = xml_get(node)]
    ELSE IF xml_isNode(node, "fabricator")
    THEN [st EXCEPT !.ship.fabricator = xml_get(node)]
    ELSE IF xml_isNode(node, "description")
    THEN [st EXCEPT !.ship.description = xml_get(node)]
    ELSE IF xml_isNode(node, "movement")
    THEN MovementLoop(st, node.children, 1)
    ELSE IF xml_isNode(node, "health")
    THEN HealthLoop(st, node.children, 1)
    ELSE IF xml_isNode(node, "characteristics")
    THEN CharacteristicsLoop(st, node.children, 1)
    ELSE IF xml_isNode(node, "slots") THEN SlotsNode(st, node)
    ELSE IF xml_isNode(node, "stats") THEN StatsNode(st, node)
    ELSE [st EXCEPT !.debugs = Append(@, W("unknown node", node.name))]

\* the do-while of the main pass, from child i on
RECURSIVE MainLoop(_, _, _)
MainLoop(st, nodes, i) ==
    IF i > Len(nodes) \/ st.crashed THEN st
    ELSE MainLoop(IF xml_skipped(nodes[i]) THEN st ELSE MainNode(st, nodes[i]),
                 nodes, i + 1)

\* a parser that stores the fields as declared
PostProcess_none(ship) == ship

\* "Post processing."
PostProcess(ship) ==
    [ship EXCEPT !.dmg_absorb = DblDiv(@, 100),
                 !.turn       = DblMul(@, DblDiv(M_PI, 180)),
                 !.thrust     = DblMul(@, ship.mass)]

\* MELEMENT(o,s): a warning naming s when o holds
MELEMENT(o, s) == IF o THEN <<W("missing element", s)>> ELSE <<>>

\* "ship validator"
Validate(ship) ==
       MELEMENT(ship.name = NULL, "name")
    \o MELEMENT(ship.base_type = NULL, "base_type")
    \o MELEMENT(ship.gfx_space = NULL, "GFX")
    \o MELEMENT(ship.gui = NULL, "GUI")
    \o MELEMENT(ship.class = SHIP_CLASS_NULL, "class")
    \o MELEMENT(ship.price = 0, "price")
    \o MELEMENT(ship.fabricator = NULL, "fabricator")
    \o MELEMENT(ship.description = NULL, "description")
    \o MELEMENT(ship.thrust = Dbl(-1), "thrust")
    \o MELEMENT(ship.turn = Dbl(0), "turn")
    \o MELEMENT(ship.speed = Dbl(-1), "speed")
    \o MELEMENT(ship.armour = Dbl(0), "armour")
    \o MELEMENT(ship.shield = Dbl(0), "shield")
    \o MELEMENT(ship.shield_regen = Dbl(0), "shield_regen")
    \o MELEMENT(ship.energy = Dbl(0), "energy")
    \o MELEMENT(ship.energy_regen = Dbl(0), "energy_regen")
    \o MELEMENT(ship.fuel = 0, "fuel")
    \o MELEMENT(ship.crew = 0, "crew")
    \o MELEMENT(ship.mass = Dbl(0), "mass")
    \o MELEMENT(ship.cpu = Dbl(0), "cpu")
    \o MELEMENT(ship.cap_cargo = Dbl(0), "cap_cargo")

\* "Defaults." and "Get name."
ParseStart(parent, u) ==
    PState([ZeroShip EXCEPT !.thrust = Dbl(-1), !.speed = Dbl(-1),
                            !.stats_array = ss_statsInit,
                            !.name = xmlr_attr(parent, "name")],
           IF xmlr_attr(parent, "name") = NULL
           THEN <<W("ship has invalid or no name", "name")>>
           ELSE <<>>,
           <<>>, u, FALSE, <<"ss_statsInit">>)

\* the validator on the post-processed ship, and return 0
ParseValidate(st) ==
    [ship |-> st.ship, warns |-> st.warns \o Validate(st.ship),
     debugs |-> st.debugs, ret |-> 0, crashed |-> FALSE, calls |-> st.calls]

\* a run that crashed: the ship as far as it was filled, nothing returned
\* (ret -1 stands for no value)
ParseCrashed(st) ==
    [ship |-> st.ship, warns |-> st.warns, debugs |-> st.debugs,
     ret |-> -1, crashed |-> TRUE, calls |-> st.calls]

\* the end of ship_parse: post-processing, then the validator
ParseFinish(st) ==
    IF st.crashed THEN ParseCrashed(st)
    ELSE ParseValidate([st EXCEPT !.ship = PostProcess(@)])

\* ship_parse( temp, parent ): the ship as the call leaves it, the warnings
\* and debug lines it records and the value it returns, in a run where a
\* comparison with a null pointer does u
ship_parse(parent, u) ==
    ParseFinish(MainLoop(
                         PrepassLoop(ParseStart(parent, u), parent.children, 1),
                         parent.children, 1))

-----------------------------------------------------------------------------
(* The slot parser on its own: every slot node of a small universe, for    *)
(* every class and every slot type                                         *)

\* the attributes of a node: those of f that are present
AttrsOf(f) == [a \in {b \in DOMAIN f : f[b] # NULL} |-> f[a]]

SlotNodeOf(type) ==
    CASE type = OUTFIT_SLOT_STRUCTURE -> "structure"
      [] type = OUTFIT_SLOT_UTILITY -> "utility"
      [] OTHER -> "weapon"

SlotAttrChoices ==
    [size : {NULL, "Small", "Large", "Huge"},
     x : {NULL, "2"}, y : {NULL, "3"}, h : {NULL, "1"},
     prop : {NULL, "systems"}, prop_exc : {NULL, "fighter_bay"},
     required : {NULL, "0"}]

SlotContents == {NULL, "Laser Cannon", "Ion Cannon"}

SlotInputs ==
    {[class |-> c, type |-> t, node |-> Elem(SlotNodeOf(t), AttrsOf(f), txt, <<>>)] :
        c \in ShipClass, t \in OutfitSlotType, f \in SlotAttrChoices, txt \in SlotContents}

NoDoc == [root |-> NULL, children |-> <<>>]

\* ret before any call: the function called, its argument, the value it
\* returned and the warnings it recorded
NoRet == [fn |-> "none", arg |-> NULL, val |-> 0, warns |-> <<>>]

NoSlotIn == [class |-> SHIP_CLASS_NULL, type |-> OUTFIT_SLOT_NULL, node |-> TextNode]

NoSlotOut == [slot |-> ZeroSlot, warns |-> <<>>, ret |-> 0]

NoParseOut ==
    [ship |-> ZeroShip, warns |-> <<>>, debugs |-> <<>>, ret |-> 0, crashed |-> FALSE,
     calls |-> <<>>]

InitSlot ==
    /\ pc = "slot_start"
    /\ slot_in \in SlotInputs
    /\ slot_out = NoSlotOut
    /\ doc = NoDoc
    /\ ship_stack = NULL
    /\ log = <<>>
    /\ ret = NoRet
    /\ ncalls = 0
    /\ released = NULL
    /\ parse_in = TextNode
    /\ parse_out = NoParseOut

\* the call ship_parseSlot( temp, &array[i], type, node ) on a zeroed slot
ParseSlot ==
    /\ pc = "slot_start"
    /\ slot_out' = ship_parseSlot([ZeroShip EXCEPT !.class = slot_in.class],
                                  ZeroSlot, slot_in.type, slot_in.node)
    /\ pc' = "slot_done"
    /\ UNCHANGED <<doc, ship_stack, log, ret, ncalls, released, parse_in, parse_out, slot_in>>

NextSlot == ParseSlot

SpecSlot == InitSlot /\ [][NextSlot]_vars

-----------------------------------------------------------------------------
(* Properties of the slot parser *)

\* how often the warning w is in the sequence warns
CountW(warns, w) == Cardinality({i \in DOMAIN warns : warns[i] = w})

HasAttr(node, a) == a \in DOMAIN node.attrs

\* the warnings of a slot node that come from its mount attributes and from
\* its default outfit
MountAttrsMissing(type, node) ==
    IF type = OUTFIT_SLOT_WEAPON
    THEN Cardinality({a \in {"x", "y", "h"} : ~HasAttr(node, a)})
    ELSE 0

OutfitUnresolved(node) ==
    IF node.content # NULL /\ node.content \notin KnownOutfits THEN 1 ELSE 0

\* C2: a slot node without a 'size' attribute gets its size from the class
\* of the ship: heavy for Bulk Carrier, Cruiser, Carrier and Mothership,
\* medium for Cruise Ship, Freighter, Destroyer, Corvette, Heavy Drone and
\* Armoured Transport, light for every other class, the null class
\* included; for every class and every slot type, and the call returns 0.
C2_SizeFromClass ==
    (pc = "slot_done" /\ ~HasAttr(slot_in.node, "size")) =>
        /\ slot_out.ret = 0
        /\ slot_out.slot.slot.size =
              CASE ship_class(slot_in.class) \in
                       {"Bulk Carrier", "Cruiser", "Carrier", "Mothership"}
                     -> OUTFIT_SLOT_SIZE_HEAVY
                [] ship_class(slot_in.class) \in
                       {"Cruise Ship", "Freighter", "Destroyer", "Corvette",
                        "Heavy Drone", "Armoured Transport"}
                     -> OUTFIT_SLOT_SIZE_MEDIUM
                [] OTHER -> OUTFIT_SLOT_SIZE_LIGHT

C2_Witness ==
    /\ pc = "slot_done"
    /\ ~HasAttr(slot_in.node, "size")
    /\ slot_in.class = SHIP_CLASS_ARMOURED_TRANSPORT
    /\ slot_in.type = OUTFIT_SLOT_UTILITY
    /\ slot_out.slot.slot.size = OUTFIT_SLOT_SIZE_MEDIUM

ConflictWarning == W("slot with both 'prop' and 'prop_exc' defined", "prop")

\* C6: a slot node with both 'prop' and 'prop_exc' yields the 'prop' value
\* with exclusive = false and exactly one warning for the conflict (the only
\* other warnings of the call are those of missing mount attributes and of
\* an unresolved default outfit); a node with only 'prop_exc' yields that
\* value with exclusive = true; a node with only 'prop' yields that value
\* with exclusive = false.
C6_PropAndPropExc ==
    pc = "slot_done" =>
        LET node == slot_in.node
            s    == slot_out.slot.slot
            others == MountAttrsMissing(slot_in.type, node) + OutfitUnresolved(node)
        IN  /\ (HasAttr(node, "prop") /\ HasAttr(node, "prop_exc")) =>
                   /\ s.property = node.attrs["prop"]
                   /\ s.exclusive = 0
                   /\ CountW(slot_out.warns, ConflictWarning) = 1
                   /\ Len(slot_out.warns) = 1 + others
            /\ (~HasAttr(node, "prop") /\ HasAttr(node, "prop_exc")) =>
                   /\ s.property = node.attrs["prop_exc"]
                   /\ s.exclusive = 1
                   /\ Len(slot_out.warns) = others
            /\ (HasAttr(node, "prop") /\ ~HasAttr(node, "prop_exc")) =>
                   /\ s.property = node.attrs["prop"]
                   /\ s.exclusive = 0
                   /\ Len(slot_out.warns) = others

C6_Witness ==
    /\ pc = "slot_done"
    /\ HasAttr(slot_in.node, "prop")
    /\ HasAttr(slot_in.node, "prop_exc")
    /\ slot_out.slot.slot.property = "systems"
    /\ slot_out.warns = <<ConflictWarning>>

MountWarning(a) == W("missing element of 'weapon' slot", a)

\* C7: on a weapon slot each of 'x', 'y', 'h' that is missing leaves its
\* mount field at the zero default (a missing 'y' does not take the x
\* value) and records one warning, each one present is read (y scaled by
\* sqrt 2) without a warning, the other attributes of the slot are still
\* parsed and the call returns 0; on a structure or utility slot no mount
\* attribute is read and no mount warning is recorded.
C7_MissingMount ==
    pc = "slot_done" =>
        LET node == slot_in.node
            out  == slot_out.slot
        IN  /\ slot_out.ret = 0
            /\ slot_in.type = OUTFIT_SLOT_WEAPON =>
                   /\ \A a \in {"x", "y", "h"} :
                          IF HasAttr(node, a)
                          THEN CountW(slot_out.warns, MountWarning(a)) = 0
                          ELSE /\ out.mount[a] = Dbl(0)
                               /\ CountW(slot_out.warns, MountWarning(a)) = 1
                   /\ HasAttr(node, "x") => out.mount.x = Dbl(atof(node.attrs["x"]))
                   /\ HasAttr(node, "y") =>
                          out.mount.y = DblMul(Dbl(atof(node.attrs["y"])), M_SQRT2)
                   /\ HasAttr(node, "h") => out.mount.h = Dbl(atof(node.attrs["h"]))
            /\ slot_in.type # OUTFIT_SLOT_WEAPON =>
                   /\ out.mount = ZeroSlot.mount
                   /\ \A a \in {"x", "y", "h"} :
                          CountW(slot_out.warns, MountWarning(a)) = 0
            /\ out.slot.type = slot_in.type
            /\ out.required = (IF HasAttr(node, "required") THEN 1 ELSE 0)
            /\ (HasAttr(node, "prop") \/ HasAttr(node, "prop_exc")) =>
                   out.slot.property # NULL
            /\ (node.content \in KnownOutfits) => out.data = node.content

C7_Witness ==
    /\ pc = "slot_done"
    /\ slot_in.type = OUTFIT_SLOT_WEAPON
    /\ HasAttr(slot_in.node, "x")
    /\ ~HasAttr(slot_in.node, "y")
    /\ HasAttr(slot_in.node, "required")
    /\ slot_out.slot.mount.x = Dbl(2)
    /\ slot_out.slot.mount.y = Dbl(0)
    /\ slot_out.slot.required = 1
    /\ CountW(slot_out.warns, MountWarning("y")) = 1

-----------------------------------------------------------------------------
(* The ship parser on its own: every ship node of a small universe *)

\* most children of a ship node, and most children of a "slots" node
MaxChildren == 2
MaxSlotNodes == 3

Leaf(name, text) == Elem(name, NoAttrs, text, <<>>)

Group(name, kids) == Elem(name, NoAttrs, NULL, kids)

\* the k-th child of a "slots" node: its 'prop' attribute tells the nodes apart
SlotChild(kind, k) ==
    IF kind = "text" THEN TextNode
    ELSE Elem(kind, AttrsOf([prop |-> CASE k = 1 -> "p1" [] k = 2 -> "p2"
                                          [] k = 3 -> "p3" [] k = 4 -> "p4"
                                          [] OTHER -> "p5",
                             x |-> IF kind = "weapon" THEN "2" ELSE NULL]),
              NULL, <<>>)

SlotKinds == {"structure", "utility", "weapon", "turret", "text"}

SlotsBlocks(n) ==
    {Group("slots", [k \in DOMAIN kinds |-> SlotChild(kinds[k], k)]) :
        kinds \in UNION {[1..len -> SlotKinds] : len \in 0..n}}

ClassNodes == {Leaf("class", "Cruiser"), Leaf("class", "Freighter"),
               Leaf("class", "Blimp"), Leaf("class", NULL)}

SimpleChildren ==
    ClassNodes
    \cup {Group("movement", <<Leaf("thrust", "3")>>),
          Group("movement", <<Leaf("turn", "90"), TextNode, Leaf("speed", "5")>>),
          Group("movement", <<Leaf("thrust", "3"), Leaf("warp", "1")>>),
          Group("movement", <<>>)}
    \cup {Group("characteristics", <<Leaf("mass", "1")>>),
          Group("characteristics", <<Leaf("mass", "2")>>),
          Group("characteristics", <<Leaf("crew", "2"), Leaf("mass", "5")>>),
          Group("characteristics", <<Leaf("fuel", "100"), Leaf("hull", "1")>>)}
    \cup {Group("health", <<Leaf("absorb", "50"), Leaf("armour", "100")>>),
          Group("health", <<Leaf("shield", "50"), Leaf("hp", "1")>>)}
    \cup {Leaf("price", "100"), Leaf("GUI", "minimal"), Leaf("cockpit", "1"), TextNode}
    \cup {Elem("GFX", NoAttrs, "llama", <<>>), Elem("GFX", NoAttrs, NULL, <<>>)}
    \cup {Group("stats", <<Leaf("jump_delay", "1"), Leaf("warp_mod", "1"),
                           Leaf("cargo_mod", "2")>>),
          Group("stats", <<Leaf("warp_mod", "1"), TextNode>>),
          Group("stats", <<Leaf("cargo_mod", "0")>>)}
    \cup SlotsBlocks(1)

ShipElem(name, kids) == Elem("ship", AttrsOf([name |-> name]), NULL, kids)

\* the ship nodes handed to ship_parse: any MaxChildren simple children, and
\* a class node before or after a block of up to MaxSlotNodes slot nodes
ParseInputs ==
    {ShipElem("Yacht", kids) :
        kids \in UNION {[1..len -> SimpleChildren] : len \in 0..MaxChildren}}
    \cup {ShipElem("Yacht", <<b>>) : b \in SlotsBlocks(MaxSlotNodes)}
    \cup {ShipElem("Yacht", <<c, b>>) : c \in ClassNodes, b \in SlotsBlocks(MaxSlotNodes)}
    \cup {ShipElem("Yacht", <<b, c>>) : c \in ClassNodes, b \in SlotsBlocks(MaxSlotNodes)}

InitParse ==
    /\ pc = "parse_start"
    /\ parse_in \in ParseInputs
    /\ parse_out = NoParseOut
    /\ slot_in = NoSlotIn
    /\ slot_out = NoSlotOut
    /\ doc = NoDoc
    /\ ship_stack = NULL
    /\ log = <<>>
    /\ ret = NoRet
    /\ ncalls = 0
    /\ released = NULL

\* the call ship_parse( temp, parent )
Parse ==
    /\ pc = "parse_start"
    /\ \E u \in NullCompare : parse_out' = ship_parse(parse_in, u)
    /\ pc' = IF parse_out'.crashed THEN "parse_crashed" ELSE "parsed"
    /\ UNCHANGED <<doc, ship_stack, log, ret, ncalls, released, parse_in, slot_in, slot_out>>

NextParse == Parse

SpecParse == InitParse /\ [][NextParse]_vars

-----------------------------------------------------------------------------
(* Properties of the ship parser *)

\* the children of parent named name, in document order
ChildrenNamed(parent, name) ==
    SelectSeq(parent.children, LAMBDA n : xml_isNode(n, name))

\* the ship node declares field inside a group node (movement, health, ...)
Declares(parent, group, field) ==
    \E i \in DOMAIN parent.children :
        /\ xml_isNode(parent.children[i], group)
        /\ \E j \in DOMAIN parent.children[i].children :
               xml_isNode(parent.children[i].children[j], field)

MissingWarning(s) == W("missing element", s)

\* C1: for a ship with no declared movement thrust and any declared mass,
\* after ship_parse the stored thrust is -1 * mass and the validator reports
\* the 'thrust' element as missing.
C1_UnsetThrustFlagged ==
    (/\ pc = "parsed"
     /\ ~Declares(parse_in, "movement", "thrust")
     /\ Declares(parse_in, "characteristics", "mass")) =>
        /\ parse_out.ship.thrust = DblMul(Dbl(-1), parse_out.ship.mass)
        /\ CountW(parse_out.warns, MissingWarning("thrust")) = 1

\* the part of C1 the code does satisfy: the stored thrust is -1 * mass, and
\* 'thrust' is reported exactly when that product is -1
C1_ThrustTimesMass ==
    (pc = "parsed" /\ ~Declares(parse_in, "movement", "thrust")) =>
        /\ parse_out.ship.thrust = DblMul(Dbl(-1), parse_out.ship.mass)
        /\ CountW(parse_out.warns, MissingWarning("thrust")) =
               (IF parse_out.ship.mass = Dbl(1) THEN 1 ELSE 0)

SlotTypeOf(name) ==
    CASE name = "structure" -> OUTFIT_SLOT_STRUCTURE
      [] name = "utility" -> OUTFIT_SLOT_UTILITY
      [] OTHER -> OUTFIT_SLOT_WEAPON

SlotArray(ship, name) ==
    CASE name = "structure" -> ship.outfit_structure
      [] name = "utility" -> ship.outfit_utility
      [] OTHER -> ship.outfit_weapon

SlotCount(ship, name) ==
    CASE name = "structure" -> ship.outfit_nstructure
      [] name = "utility" -> ship.outfit_nutility
      [] OTHER -> ship.outfit_nweapon

\* C3: for a ship with one 'slots' block, whatever the interleaving of its
\* structure, utility and weapon children, each of the three arrays is as
\* long as the block has children of its category, and entry i is the slot
\* parsed from the i-th such child in document order, with that category as
\* its type.
C3_SlotArrays ==
    (pc = "parsed" /\ Len(ChildrenNamed(parse_in, "slots")) = 1) =>
        LET block == ChildrenNamed(parse_in, "slots")[1]
            ship  == parse_out.ship
        IN  \A name \in {"structure", "utility", "weapon"} :
                LET nodes == ChildrenNamed(block, name)
                    array == SlotArray(ship, name)
                IN  /\ Len(array) = Len(nodes)
                    /\ SlotCount(ship, name) = Len(nodes)
                    /\ \A i \in 1..Len(nodes) :
                           /\ array[i].slot.type = SlotTypeOf(name)
                           /\ array[i].slot.property = nodes[i].attrs["prop"]
                           /\ array[i] = ship_parseSlot(ship, ZeroSlot,
                                                        SlotTypeOf(name), nodes[i]).slot

C3_Witness ==
    /\ pc = "parsed"
    /\ Len(ChildrenNamed(parse_in, "slots")) = 1
    /\ LET kids == ChildrenNamed(parse_in, "slots")[1].children
       IN  /\ Len(kids) = 3
           /\ xml_isNode(kids[1], "utility")
           /\ xml_isNode(kids[2], "weapon")
           /\ xml_isNode(kids[3], "utility")
    /\ Len(parse_out.ship.outfit_utility) = 2
    /\ parse_out.ship.outfit_utility[2].slot.property = "p3"
    /\ parse_out.ship.outfit_weapon[1].slot.property = "p2"

\* the class a ship node declares when its class nodes have text: that of
\* the last one
ClassDeclared(parent) ==
    ship_classFromString(
        xml_get(ChildrenNamed(parent, "class")[Len(ChildrenNamed(parent, "class"))]))

\* the ship node has class nodes and every one of them has text
DeclaresClass(parent) ==
    /\ ChildrenNamed(parent, "class") # <<>>
    /\ \A j \in 1..Len(ChildrenNamed(parent, "class")) :
           xml_get(ChildrenNamed(parent, "class")[j]) # NULL

\* position of the first child of parent named name, 0 when there is none
FirstNamed(parent, name) ==
    IF \E i \in DOMAIN parent.children : xml_isNode(parent.children[i], name)
    THEN CHOOSE i \in DOMAIN parent.children :
             /\ xml_isNode(parent.children[i], name)
             /\ \A j \in 1..(i - 1) : ~xml_isNode(parent.children[j], name)
    ELSE 0

\* C15: the size of a slot that declares none comes from the class the ship
\* declares, wherever the 'class' node stands in the document, also after
\* the 'slots' node: the class is resolved before any slot is parsed.
C15_ClassBeforeSlots ==
    (/\ pc = "parsed"
     /\ DeclaresClass(parse_in)
     /\ Len(ChildrenNamed(parse_in, "slots")) = 1) =>
        /\ parse_out.ship.class = ClassDeclared(parse_in)
        /\ \A name \in {"structure", "utility", "weapon"} :
               \A i \in 1..Len(ChildrenNamed(ChildrenNamed(parse_in, "slots")[1], name)) :
                   ~HasAttr(ChildrenNamed(ChildrenNamed(parse_in, "slots")[1], name)[i],
                            "size") =>
                       SlotArray(parse_out.ship, name)[i].slot.size =
                           SlotSizeOfClass(ClassDeclared(parse_in))

C15_Witness ==
    /\ pc = "parsed"
    /\ FirstNamed(parse_in, "slots") = 1
    /\ FirstNamed(parse_in, "class") = 2
    /\ xml_get(parse_in.children[2]) = "Cruiser"
    /\ Len(parse_out.ship.outfit_weapon) = 2
    /\ parse_out.ship.outfit_weapon[2].slot.size = OUTFIT_SLOT_SIZE_HEAVY
    /\ Len(parse_out.ship.outfit_utility) = 1
    /\ parse_out.ship.outfit_utility[1].slot.size = OUTFIT_SLOT_SIZE_HEAVY

\* the element children of the first n "stats" nodes of the ship node, in
\* document order
RECURSIVE StatNodes(_, _)
StatNodes(parent, n) ==
    IF n = 0 THEN <<>>
    ELSE StatNodes(parent, n - 1)
         \o SelectSeq(ChildrenNamed(parent, "stats")[n].children,
                      LAMBDA c : ~xml_skipped(c))

\* those the stat collaborator recognizes
Recognized(nodes) == SelectSeq(nodes, LAMBDA c : ss_listFromXML(c) # <<>>)

\* the list elements of recognized nodes, last node first
ReversedList(nodes) ==
    [i \in 1..Len(nodes) |-> ss_listFromXML(nodes[Len(nodes) + 1 - i])[1]]

\* what C16 says of the array and of the description of a parsed ship
ArrayAndDescAsClaimed ==
    /\ DOMAIN parse_out.ship.stats_array = KnownStats
    /\ parse_out.ship.stats_array =
           ss_statsModFromList(ss_statsInit, parse_out.ship.stats)
    /\ parse_out.ship.desc_stats # NULL <=>
           ss_statsListDesc(parse_out.ship.stats) # ""
    /\ parse_out.ship.desc_stats # NULL =>
           parse_out.ship.desc_stats = ss_statsListDesc(parse_out.ship.stats)

\* C16: once the children of a 'stats' block are consumed the list is
\* compiled into the array and rendered to the description, both steps
\* unconditionally and exactly once per ship, also when the list is empty;
\* the array is there for every parsed ship and a description is stored
\* only when rendering gave output.
C16_CompileRenderOnce ==
    pc = "parsed" =>
        /\ ArrayAndDescAsClaimed
        /\ ChildrenNamed(parse_in, "stats") # <<>> =>
               /\ CountW(parse_out.calls, "ss_statsModFromList") = 1
               /\ CountW(parse_out.calls, "ss_statsListDesc") = 1

\* the 'stats' blocks of the ship node after which the list is not empty
BlocksRendered ==
    {n \in 1..Len(ChildrenNamed(parse_in, "stats")) :
         Recognized(StatNodes(parse_in, n)) # <<>>}

\* the part of C16 the code does satisfy: the list is compiled once after
\* every 'stats' block and rendered once after every block that leaves a
\* list that is not empty
C16_CompileRenderPerBlock ==
    pc = "parsed" =>
        /\ ArrayAndDescAsClaimed
        /\ CountW(parse_out.calls, "ss_statsModFromList") =
               Len(ChildrenNamed(parse_in, "stats"))
        /\ CountW(parse_out.calls, "ss_statsListDesc") = Cardinality(BlocksRendered)

\* every description buffer but the one stored has been freed
C16_NoBufferLost ==
    pc = "parsed" =>
        CountW(parse_out.calls, "malloc") - CountW(parse_out.calls, "free") =
            (IF parse_out.ship.desc_stats # NULL THEN 1 ELSE 0)

\* the names of the nodes the stat collaborator does not recognize
UnknownStatNames(nodes) ==
    {nodes[i].name : i \in {j \in DOMAIN nodes : ss_listFromXML(nodes[j]) = <<>>}}

\* C17: after parsing, the stat list holds exactly the nodes of the 'stats'
\* block that the stat collaborator recognized, in the reverse of their
\* document order; every other node gives one warning and neither changes
\* the list nor stops the loop.
C17_StatsReversed ==
    (pc = "parsed" /\ ChildrenNamed(parse_in, "stats") # <<>>) =>
        /\ parse_out.ship.stats =
               ReversedList(Recognized(
                   StatNodes(parse_in, Len(ChildrenNamed(parse_in, "stats")))))
        /\ \A nm \in UnknownStatNames(
                   StatNodes(parse_in, Len(ChildrenNamed(parse_in, "stats")))) :
               CountW(parse_out.warns, W("unknown stat", nm)) =
                   Len(SelectSeq(
                           StatNodes(parse_in, Len(ChildrenNamed(parse_in, "stats"))),
                           LAMBDA c : c.name = nm))

C17_Witness ==
    /\ pc = "parsed"
    /\ Len(parse_in.children) = 1
    /\ xml_isNode(parse_in.children[1], "stats")
    /\ Len(parse_in.children[1].children) = 3
    /\ parse_in.children[1].children[1].name = "jump_delay"
    /\ parse_in.children[1].children[2].name = "warp_mod"
    /\ parse_in.children[1].children[3].name = "cargo_mod"
    /\ Len(parse_out.ship.stats) = 2
    /\ parse_out.ship.stats[1].type = "cargo_mod"
    /\ parse_out.ship.stats[2].type = "jump_delay"
    /\ CountW(parse_out.warns, W("unknown stat", "warp_mod")) = 1

\* the element children of the first n group nodes (movement, health, ...)
\* of the ship node, in document order
RECURSIVE GroupNodes(_, _, _)
GroupNodes(parent, group, n) ==
    IF n = 0 THEN <<>>
    ELSE GroupNodes(parent, group, n - 1)
         \o SelectSeq(ChildrenNamed(parent, group)[n].children,
                      LAMBDA c : ~xml_skipped(c))

\* the declarations of field inside the group nodes, in document order
Declarations(parent, group, field) ==
    SelectSeq(GroupNodes(parent, group, Len(ChildrenNamed(parent, group))),
              LAMBDA c : xml_isNode(c, field))

\* the number the document declares for field: that of its last declaration
Declared(parent, group, field) ==
    atof(xml_get(Declarations(parent, group, field)
                     [Len(Declarations(parent, group, field))]))

\* C18: the post-processing conversions are applied exactly once per parsed
\* ship, after every field is set and whatever the order of the 'movement',
\* 'health' and 'characteristics' nodes: stored thrust = declared thrust *
\* declared mass, stored absorption = declared percentage / 100 (50 gives
\* 0.5), stored turn = declared degrees * pi / 180; max speed and the other
\* fields are stored as declared.
C18_PostProcessing ==
    pc = "parsed" =>
        /\ (Declares(parse_in, "movement", "thrust")
            /\ Declares(parse_in, "characteristics", "mass")) =>
               parse_out.ship.thrust =
                   DblMul(Dbl(Declared(parse_in, "movement", "thrust")),
                          Dbl(Declared(parse_in, "characteristics", "mass")))
        /\ Declares(parse_in, "health", "absorb") =>
               /\ parse_out.ship.dmg_absorb =
                      DblDiv(Dbl(Declared(parse_in, "health", "absorb")), 100)
               /\ Declared(parse_in, "health", "absorb") = 50 =>
                      parse_out.ship.dmg_absorb = [n |-> 1, d |-> 2, pi |-> 0, sqrt2 |-> 0]
        /\ Declares(parse_in, "movement", "turn") =>
               parse_out.ship.turn =
                   DblMul(Dbl(Declared(parse_in, "movement", "turn")),
                          [n |-> 1, d |-> 180, pi |-> 1, sqrt2 |-> 0])
        /\ Declares(parse_in, "movement", "speed") =>
               parse_out.ship.speed = Dbl(Declared(parse_in, "movement", "speed"))
        /\ Declares(parse_in, "characteristics", "mass") =>
               parse_out.ship.mass = Dbl(Declared(parse_in, "characteristics", "mass"))
        /\ Declares(parse_in, "characteristics", "crew") =>
               parse_out.ship.crew = Declared(parse_in, "characteristics", "crew")
        /\ Declares(parse_in, "characteristics", "fuel") =>
               parse_out.ship.fuel = Declared(parse_in, "characteristics", "fuel")
        /\ Declares(parse_in, "health", "armour") =>
               parse_out.ship.armour = Dbl(Declared(parse_in, "health", "armour"))
        /\ Declares(parse_in, "health", "shield") =>
               parse_out.ship.shield = Dbl(Declared(parse_in, "health", "shield"))

\* thrust declared before the mass it is multiplied by
C18_Witness ==
    /\ pc = "parsed"
    /\ Len(parse_in.children) = 2
    /\ xml_isNode(parse_in.children[1], "movement")
    /\ xml_isNode(parse_in.children[2], "characteristics")
    /\ Declares(parse_in, "movement", "thrust")
    /\ Declares(parse_in, "characteristics", "mass")
    /\ Declared(parse_in, "movement", "thrust") = 3
    /\ Declared(parse_in, "characteristics", "mass") = 2
    /\ parse_out.ship.thrust = Dbl(6)

\* the mass declared before the thrust
C18_WitnessMassFirst ==
    /\ pc = "parsed"
    /\ Len(parse_in.children) = 2
    /\ xml_isNode(parse_in.children[1], "characteristics")
    /\ xml_isNode(parse_in.children[2], "movement")
    /\ Declares(parse_in, "movement", "thrust")
    /\ Declares(parse_in, "characteristics", "mass")
    /\ Declared(parse_in, "movement", "thrust") = 3
    /\ Declared(parse_in, "characteristics", "mass") = 5
    /\ parse_out.ship.thrust = Dbl(15)

\* the entries of a slot array that ship_parseSlot has written: calloc
\* leaves the type of an entry at zero, ship_parseSlot sets it
Populated(array) == {i \in DOMAIN array : array[i].slot.type # OUTFIT_SLOT_NULL}

SlotCategories == {"structure", "utility", "weapon"}

\* C19: for any ship definition, also one with more than one 'slots' node,
\* after ship_parse the recorded slot count of each category equals the
\* number of entries of that category's array that ship_parseSlot populated,
\* so whoever iterates up to the count only visits parsed slots.
C19_CountIsPopulated ==
    pc = "parsed" =>
        \A name \in SlotCategories :
            /\ SlotCount(parse_out.ship, name) =
                   Cardinality(Populated(SlotArray(parse_out.ship, name)))
            /\ \A j \in 1..SlotCount(parse_out.ship, name) :
                   j \in Populated(SlotArray(parse_out.ship, name))

\* the part of C19 the code does satisfy: the count is the length of the
\* array and the number of children of that category in all 'slots' nodes,
\* while the populated entries are the first ones, as many as the last
\* 'slots' node has children of that category
C19_CountIsAllBlocks ==
    pc = "parsed" =>
        \A name \in SlotCategories :
            /\ SlotCount(parse_out.ship, name) =
                   Len(SelectSeq(GroupNodes(parse_in, "slots",
                                            Len(ChildrenNamed(parse_in, "slots"))),
                                 LAMBDA c : xml_isNode(c, name)))
            /\ SlotCount(parse_out.ship, name) = Len(SlotArray(parse_out.ship, name))
            /\ ChildrenNamed(parse_in, "slots") # <<>> =>
                   Populated(SlotArray(parse_out.ship, name)) =
                       1..Len(ChildrenNamed(
                                  ChildrenNamed(parse_in, "slots")
                                      [Len(ChildrenNamed(parse_in, "slots"))],
                                  name))

\* with at most one 'slots' node the count is the number of populated entries
C19_CountIsPopulatedWithOneBlock ==
    (pc = "parsed" /\ Len(ChildrenNamed(parse_in, "slots")) <= 1) =>
        \A name \in SlotCategories :
            Populated(SlotArray(parse_out.ship, name)) =
                1..SlotCount(parse_out.ship, name)

-----------------------------------------------------------------------------
(* The catalogue: ships_load and the lookups *)

XML_ID == "Ships"
XML_SHIP == "ship"

\* most top-level nodes of a document, and most lookups after a load
MaxTopNodes == 2
MaxCalls == 1

\* the top-level nodes of the documents: ship elements with or without a
\* name and with a known, an unknown or no class, and nodes that are no ship
TopNodes ==
    {Elem(XML_SHIP, AttrsOf([name |-> n]), NULL, kids) :
        n \in {NULL, "Yacht", "YACHT"},
        kids \in {<<Leaf("class", "Cruiser"), Leaf("price", "100")>>,
                  <<TextNode, Leaf("class", "Blimp")>>,
                  <<Leaf("class", NULL)>>,
                  <<>>}}
    \cup {TextNode, Group("fleet", <<>>)}

Documents ==
    {[root |-> XML_ID, children |-> kids] :
        kids \in UNION {[1..len -> TopNodes] : len \in 0..MaxTopNodes}}
    \cup {[root |-> "Outfits", children |-> <<n>>] : n \in TopNodes}

\* the names looked up
LookupNames == {"Yacht", "YACHT", "yacht", "Llama"}

Init ==
    /\ pc = "start"
    /\ doc \in Documents
    /\ ship_stack = NULL
    /\ log = <<>>
    /\ ret = NoRet
    /\ ncalls = 0
    /\ released = NULL
    /\ parse_in = TextNode
    /\ parse_out = NoParseOut
    /\ slot_in = NoSlotIn
    /\ slot_out = NoSlotOut

\* the loop of ships_load from node i on: the parse of every ship element,
\* in document order, up to the first one that crashes
RECURSIVE LoadShips(_, _, _)
LoadShips(nodes, i, u) ==
    IF i > Len(nodes) THEN <<>>
    ELSE IF ~xml_isNode(nodes[i], XML_SHIP) THEN LoadShips(nodes, i + 1, u)
    ELSE IF ship_parse(nodes[i], u).crashed THEN <<ship_parse(nodes[i], u)>>
    ELSE <<ship_parse(nodes[i], u)>> \o LoadShips(nodes, i + 1, u)

\* the load crashed inside a ship_parse
LoadCrashed(parsed) == parsed # <<>> /\ parsed[Len(parsed)].crashed

RECURSIVE Flatten(_)
Flatten(seqs) == IF seqs = <<>> THEN <<>> ELSE Head(seqs) \o Flatten(Tail(seqs))

\* the documents found by a load that follows a ships_free: one ship of
\* another name, a nameless ship followed by a ship whose class node has
\* no text, a root without children, and a root with white space only
ReloadDocuments ==
    {[root |-> XML_ID, children |-> kids] :
        kids \in {<<Elem(XML_SHIP, AttrsOf([name |-> "Llama"]), NULL,
                         <<Leaf("class", "Cruiser"), Leaf("price", "100")>>)>>,
                  <<TextNode,
                    Elem(XML_SHIP, NoAttrs, NULL, <<>>),
                    Elem(XML_SHIP, AttrsOf([name |-> "Llama"]), NULL,
                         <<Leaf("class", NULL)>>)>>,
                  <<>>,
                  <<TextNode>>}}

\* the array after array_grow for every ship parsed, in the order parsed
RECURSIVE GrownStack(_)
GrownStack(parsed) ==
    IF parsed = <<>> THEN <<>>
    ELSE <<Head(parsed).ship>> \o GrownStack(Tail(parsed))

\* the body of ships_load on the document d; done is the position of the
\* program after a load that went through
LoadDoc(d, done) ==
    IF d.root # XML_ID
    THEN /\ log' = Append(log, W("ERR missing root element", XML_ID))
         /\ ret' = [fn |-> "ships_load", arg |-> NULL, val |-> -1, warns |-> <<>>]
         /\ pc' = "failed"
         /\ UNCHANGED ship_stack
    ELSE IF d.children = <<>>
    THEN /\ log' = Append(log, W("ERR does not contain elements", XML_ID))
         /\ ret' = [fn |-> "ships_load", arg |-> NULL, val |-> -1, warns |-> <<>>]
         /\ pc' = "failed"
         /\ UNCHANGED ship_stack
    ELSE \E u \in NullCompare : \E parsed \in {LoadShips(d.children, 1, u)} :
             /\ ship_stack' = GrownStack(parsed)
             /\ log' = log \o Flatten([i \in DOMAIN parsed |-> parsed[i].warns])
             /\ ret' = IF LoadCrashed(parsed) THEN ret
                       ELSE [fn |-> "ships_load", arg |-> NULL, val |-> 0,
                             warns |-> Flatten([i \in DOMAIN parsed |-> parsed[i].warns])]
             /\ pc' = IF LoadCrashed(parsed) THEN "load_crashed" ELSE done

\* ships_load(): fails on a wrong root element and on a root without
\* children, otherwise parses every ship element into ship_stack; a crash
\* inside ship_parse ends the program with the load unfinished.  The first
\* load reads doc; a load after ships_free reads the data file anew
ships_load ==
    /\ \/ pc = "start" /\ doc' = doc /\ LoadDoc(doc, "loaded")
       \/ pc = "freed" /\ \E d \in ReloadDocuments : doc' = d /\ LoadDoc(d, "reloaded")
    /\ UNCHANGED <<ncalls, released, parse_in, parse_out, slot_in, slot_out>>

\* ships_free without the final ship_stack = NULL
ships_free_noReset ==
    /\ pc = "loaded"
    /\ released' = ship_stack
    /\ ret' = [fn |-> "ships_free", arg |-> NULL, val |-> 0, warns |-> <<>>]
    /\ pc' = "freed"
    /\ UNCHANGED <<doc, ship_stack, log, ncalls, parse_in, parse_out, slot_in, slot_out>>

\* ships_free(): releases what every ship owns, then the array, and resets
\* ship_stack; the memory released is kept in released
ships_free ==
    /\ pc = "loaded"
    /\ released' = ship_stack
    /\ ship_stack' = NULL
    /\ ret' = [fn |-> "ships_free", arg |-> NULL, val |-> 0, warns |-> <<>>]
    /\ pc' = "freed"
    /\ UNCHANGED <<doc, log, ncalls, parse_in, parse_out, slot_in, slot_out>>

\* array_size( array ): the number of elements, 0 for the empty catalogue
array_size(array) == IF array = NULL THEN 0 ELSE Len(array)

\* the positions of the program at which the catalogue can be queried
Queryable == {"loaded", "freed", "reloaded"}

\* ship_getAll( &n ): ret.val is the number of entries reported in *n
ship_getAll ==
    /\ pc \in Queryable
    /\ ncalls < MaxCalls
    /\ ret' = [fn |-> "ship_getAll", arg |-> NULL, val |-> array_size(ship_stack),
               warns |-> <<>>]
    /\ ncalls' = ncalls + 1
    /\ UNCHANGED <<pc, doc, ship_stack, log, released, parse_in, parse_out, slot_in, slot_out>>

\* the loop of ship_get and ship_getW from entry i on: the index of the
\* entry returned, 0 for NULL, -1 for a crash
RECURSIVE ScanGet(_, _, _, _)
ScanGet(stack, name, i, u) ==
    IF i > array_size(stack) THEN 0
    ELSE IF stack[i].name = NULL
    THEN (IF u = "crash" THEN -1
          ELSE IF u = "equal" THEN i
          ELSE ScanGet(stack, name, i + 1, u))
    ELSE IF strcmp(stack[i].name, name) = 0 THEN i
    ELSE ScanGet(stack, name, i + 1, u)

\* the loop of ship_existsCase from entry i on
RECURSIVE ScanCase(_, _, _, _)
ScanCase(stack, name, i, u) ==
    IF i > array_size(stack) THEN 0
    ELSE IF stack[i].name = NULL
    THEN (IF u = "crash" THEN -1
          ELSE IF u = "equal" THEN i
          ELSE ScanCase(stack, name, i + 1, u))
    ELSE IF strcasecmp(name, stack[i].name) = 0 THEN i
    ELSE ScanCase(stack, name, i + 1, u)

\* the state a lookup leaves: r is the index found, 0 or -1
Returned(fn, name, r, warns) ==
    /\ ret' = [fn |-> fn, arg |-> name, val |-> r, warns |-> warns]
    /\ log' = log \o warns
    /\ pc' = IF r = -1 THEN "crashed" ELSE pc
    /\ ncalls' = ncalls + 1
    /\ UNCHANGED <<doc, ship_stack, released, parse_in, parse_out, slot_in, slot_out>>

\* ship_get( name )
ship_get(name) ==
    /\ pc \in Queryable
    /\ ncalls < MaxCalls
    /\ \E u \in NullCompare :
           LET r == ScanGet(ship_stack, name, 1, u)
           IN  Returned("ship_get", name, r,
                        IF r = 0 THEN <<W("Ship does not exist", name)>> ELSE <<>>)

\* ship_getW( name )
ship_getW(name) ==
    /\ pc \in Queryable
    /\ ncalls < MaxCalls
    /\ \E u \in NullCompare :
           Returned("ship_getW", name, ScanGet(ship_stack, name, 1, u), <<>>)

\* ship_existsCase( name ): ret.val is the index of the entry whose name is
\* returned
ship_existsCase(name) ==
    /\ pc \in Queryable
    /\ ncalls < MaxCalls
    /\ \E u \in NullCompare :
           Returned("ship_existsCase", name, ScanCase(ship_stack, name, 1, u), <<>>)

Next ==
    \/ ships_load
    \/ \E name \in LookupNames : ship_get(name)
    \/ \E name \in LookupNames : ship_getW(name)
    \/ \E name \in LookupNames : ship_existsCase(name)

Spec == Init /\ [][Next]_vars

\* The life of the catalogue: a load, the release by ships_free and a later
\* load, with queries in between, on documents of up to MaxTopNodes nodes
LifeNodes ==
    {Elem(XML_SHIP, AttrsOf([name |-> "Yacht"]), NULL, <<Leaf("class", "Cruiser")>>),
     Elem(XML_SHIP, NoAttrs, NULL, <<>>),
     TextNode}

LifeDocuments ==
    {[root |-> XML_ID, children |-> kids] :
        kids \in UNION {[1..len -> LifeNodes] : len \in 0..MaxTopNodes}}

LifeNames == {"Yacht", "Llama"}

InitLife ==
    /\ pc = "start"
    /\ doc \in LifeDocuments
    /\ ship_stack = NULL
    /\ log = <<>>
    /\ ret = NoRet
    /\ ncalls = 0
    /\ released = NULL
    /\ parse_in = TextNode
    /\ parse_out = NoParseOut
    /\ slot_in = NoSlotIn
    /\ slot_out = NoSlotOut

NextLife ==
    \/ ships_load
    \/ ships_free
    \/ ship_getAll
    \/ \E name \in LifeNames : ship_get(name)
    \/ \E name \in LifeNames : ship_getW(name)
    \/ \E name \in LifeNames : ship_existsCase(name)

SpecLife == InitLife /\ [][NextLife]_vars

-----------------------------------------------------------------------------
(* Properties of the catalogue *)

\* the ship elements of the document, in document order
ShipElems == SelectSeq(doc.children, LAMBDA n : xml_isNode(n, XML_SHIP))

\* the class a ship element declares: that of its last 'class' child
DeclaredClass(elem) ==
    IF ChildrenNamed(elem, "class") = <<>> THEN SHIP_CLASS_NULL
    ELSE ship_classFromString(
             ChildrenNamed(elem, "class")[Len(ChildrenNamed(elem, "class"))].content)

Loaded == pc \in {"loaded", "reloaded", "crashed"}

\* C4: loading a document with the right root and no ship element is a
\* fatal error, the load fails and no catalogue is built, whether the root
\* has no children or only children that are no ship elements.
C4_NoShipIsFatal ==
    (pc # "start" /\ doc.root = XML_ID /\ ShipElems = <<>>) =>
        (pc = "failed" /\ ship_stack = NULL)

\* the part of C4 the code does satisfy: a root without any child is fatal
C4_NoChildIsFatal ==
    (pc # "start" /\ doc.root = XML_ID /\ doc.children = <<>>) =>
        (pc = "failed" /\ ship_stack = NULL /\ ret.val = -1)

\* what C5 says of a load of a document with the right root
LoadAsClaimed ==
    /\ pc # "load_crashed"
    /\ pc = "failed" => doc.children = <<>>
    /\ Loaded =>
          /\ Len(ship_stack) = Len(ShipElems)
          /\ \A i \in 1..Len(ShipElems) :
                 /\ ship_stack[i].name = xmlr_attr(ShipElems[i], "name")
                 /\ ship_stack[i].class = DeclaredClass(ShipElems[i])
          /\ ret.fn = "ships_load" =>
                 CountW(ret.warns, MissingWarning("class")) =
                     Cardinality({i \in 1..Len(ShipElems) :
                                      DeclaredClass(ShipElems[i]) = SHIP_CLASS_NULL})

\* C5: with the right root, ships_load fails only on a root without
\* children and never ends because of a ship: every ship element, whatever
\* it lacks and whatever its class string, gives one catalogue entry, in
\* document order, with the name and the class it declares (the null class
\* and one 'class' warning for an unrecognized or absent class string);
\* other top-level nodes give no entry.
C5_EveryShipLoaded ==
    (pc # "start" /\ doc.root = XML_ID) => LoadAsClaimed

\* every class node of every ship element of the document has text
ClassesHaveText ==
    \A i \in 1..Len(ShipElems) :
        \A j \in 1..Len(ChildrenNamed(ShipElems[i], "class")) :
            xml_get(ChildrenNamed(ShipElems[i], "class")[j]) # NULL

\* C5 on the documents whose class nodes all have text: there it holds
C5_EveryShipLoadedWhenClassHasText ==
    (pc # "start" /\ doc.root = XML_ID /\ ClassesHaveText) => LoadAsClaimed

\* C8: after ships_load every catalogue entry has a non-null name and no
\* two entries have the same name.
C8_NamesUnique ==
    Loaded =>
        /\ \A i \in DOMAIN ship_stack : ship_stack[i].name # NULL
        /\ \A i, j \in DOMAIN ship_stack :
               i # j => ship_stack[i].name # ship_stack[j].name

\* every entry of the catalogue has a name
AllNamed == \A i \in DOMAIN ship_stack : ship_stack[i].name # NULL

\* the first entry of the catalogue that satisfies P, 0 when there is none
FirstEntry(P(_)) ==
    IF \E i \in DOMAIN ship_stack : P(ship_stack[i])
    THEN CHOOSE i \in DOMAIN ship_stack :
             /\ P(ship_stack[i])
             /\ \A j \in 1..(i - 1) : ~P(ship_stack[j])
    ELSE 0

\* what C9 says of the call recorded in ret
GetAsClaimed ==
    /\ pc # "crashed"
    /\ ret.val = FirstEntry(LAMBDA e : e.name = ret.arg)
    /\ ret.val # 0 => ship_stack[ret.val].name = ret.arg
    /\ ret.warns = (IF ret.fn = "ship_get" /\ ret.val = 0
                    THEN <<W("Ship does not exist", ret.arg)>> ELSE <<>>)

\* C9: on a loaded catalogue, ship_get returns an entry whose name is
\* exactly the one asked for when there is one, and otherwise returns
\* not-found and records a warning; ship_getW returns the same as ship_get
\* and records no warning.
C9_GetByName ==
    (Loaded /\ ret.fn \in {"ship_get", "ship_getW"}) => GetAsClaimed

\* C9 on the catalogues whose entries all have a name: there it holds
C9_GetByNameWhenNamed ==
    (Loaded /\ ret.fn \in {"ship_get", "ship_getW"} /\ AllNamed) => GetAsClaimed

\* two strings are equal ignoring the case of their letters
SameIgnoringCase(a, b) == LowerCodes(a) = LowerCodes(b)

\* what C10 says of the call recorded in ret
ExistsCaseAsClaimed ==
    /\ pc # "crashed"
    /\ ret.val = FirstEntry(LAMBDA e : e.name # NULL /\ SameIgnoringCase(e.name, ret.arg))
    /\ ret.val # 0 => SameIgnoringCase(ship_stack[ret.val].name, ret.arg)
    /\ ret.warns = <<>>

\* C10: ship_existsCase returns the stored name of an entry whose name
\* equals the argument ignoring case, not-found when there is none, and
\* records no warning.
C10_ExistsCase ==
    (Loaded /\ ret.fn = "ship_existsCase") => ExistsCaseAsClaimed

\* C10 on the catalogues whose entries all have a name: there it holds
C10_ExistsCaseWhenNamed ==
    (Loaded /\ ret.fn = "ship_existsCase" /\ AllNamed) => ExistsCaseAsClaimed

\* C12: after ships_free, following a load that succeeded, the catalogue
\* is empty: ship_stack is reset, ship_getAll reports zero entries and every
\* lookup by name returns not-found; a later ships_load that goes through
\* builds a catalogue of exactly the ships of the document it reads, none
\* of the catalogue released before.
C12_FreeThenReload ==
    /\ pc = "freed" =>
          /\ released # NULL
          /\ ship_stack = NULL
          /\ ret.fn \in {"ship_getAll", "ship_get", "ship_getW", "ship_existsCase"} =>
                 ret.val = 0
    /\ pc = "reloaded" =>
          /\ Len(ship_stack) = Len(ShipElems)
          /\ \A i \in 1..Len(ShipElems) :
                 ship_stack[i].name = xmlr_attr(ShipElems[i], "name")

C12_Witness ==
    /\ pc = "reloaded"
    /\ released # NULL
    /\ Len(released) = 2
    /\ released[1].name = "Yacht"
    /\ Len(ship_stack) = 1
    /\ ship_stack[1].name = "Llama"
    /\ ret.fn = "ship_getAll"
    /\ ret.val = 1

-----------------------------------------------------------------------------
(* The display order: ship_compareTech on the ships of a small universe *)

\* the ships handed to ship_compareTech differ in class, price and name; a
\* ship parsed without a name attribute has a null name
CompareClasses == {SHIP_CLASS_NULL, SHIP_CLASS_YACHT, SHIP_CLASS_CRUISER}

ComparePrices == {0, 100}

CompareNames == {NULL, "Yacht", "YACHT", "Lla", "Llama"}

CompareShips ==
    {[ZeroShip EXCEPT !.class = c, !.price = p, !.name = n] :
        c \in CompareClasses, p \in ComparePrices, n \in CompareNames}

\* the final strcmp of ship_compareTech reads a null name
CompareReadsNull(s1, s2) ==
    /\ s1.class = s2.class
    /\ s1.price = s2.price
    /\ (s1.name = NULL \/ s2.name = NULL)

\* ship_compareTech( arg1, arg2 ): the value returned, in a run where a
\* comparison with a null pointer does u (0 stands in for a crashed call)
ship_compareTech(s1, s2, u) ==
    IF s1.class < s2.class THEN 1
    ELSE IF s1.class > s2.class THEN -1
    ELSE IF s1.price < s2.price THEN 1
    ELSE IF s1.price > s2.price THEN -1
    ELSE IF s1.name = NULL \/ s2.name = NULL
    THEN (IF u = "differ" THEN 1 ELSE 0)
    ELSE strcmp(s1.name, s2.name)

InitCompare ==
    /\ pc = "cmp_start"
    /\ ship_stack \in [1..3 -> CompareShips]
    /\ doc = NoDoc
    /\ log = <<>>
    /\ ret = NoRet
    /\ ncalls = 0
    /\ released = NULL
    /\ parse_in = TextNode
    /\ parse_out = NoParseOut
    /\ slot_in = NoSlotIn
    /\ slot_out = NoSlotOut

\* ship_compareTech called on every pair of the three ships, as a sort of
\* the list does: ret.val[i][j] is the value returned for (ship i, ship j)
Compare ==
    /\ pc = "cmp_start"
    /\ \E u \in NullCompare :
         /\ ret' = [fn |-> "ship_compareTech", arg |-> NULL, warns |-> <<>>,
                    val |-> [i \in 1..3 |-> [j \in 1..3 |->
                               ship_compareTech(ship_stack[i], ship_stack[j], u)]]]
         /\ pc' = IF /\ u = "crash"
                     /\ \E i, j \in 1..3 : CompareReadsNull(ship_stack[i], ship_stack[j])
                  THEN "cmp_crashed" ELSE "compared"
    /\ UNCHANGED <<doc, ship_stack, log, ncalls, released, parse_in, parse_out, slot_in, slot_out>>

NextCompare == Compare

SpecCompare == InitCompare /\ [][NextCompare]_vars

\* the sign of an integer
Sign(x) == IF x < 0 THEN -1 ELSE IF x > 0 THEN 1 ELSE 0

\* name a comes before name b in the order of the character codes
NameBefore(a, b) == CmpCodes(Codes(a), Codes(b), 1) < 0

\* ship a has to come before ship b: higher class, then higher price, then
\* smaller name
SortsBefore(a, b) ==
    \/ a.class > b.class
    \/ a.class = b.class /\ a.price > b.price
    \/ a.class = b.class /\ a.price = b.price /\ NameBefore(a.name, b.name)

\* what C11 says of the values recorded in ret
OrderAsClaimed ==
    /\ pc = "compared"
    /\ \A i, j \in 1..3 :
          /\ SortsBefore(ship_stack[i], ship_stack[j]) => ret.val[i][j] < 0
          /\ Sign(ret.val[i][j]) = 0 - Sign(ret.val[j][i])
          /\ ret.val[i][j] = 0 =>
                /\ ship_stack[i].class = ship_stack[j].class
                /\ ship_stack[i].price = ship_stack[j].price
                /\ ship_stack[i].name = ship_stack[j].name
    /\ \A i, j, k \in 1..3 :
          (ret.val[i][j] <= 0 /\ ret.val[j][k] <= 0) => ret.val[i][k] <= 0

\* C11: ship_compareTech is a total order on ships: higher class first
\* whatever the prices, then higher price first, then the smaller name
\* first; compare(a,b) and compare(b,a) have opposite signs, the relation
\* is transitive and compare(a,b) is 0 only for equal class, price and name.
C11_TotalOrder ==
    pc \in {"compared", "cmp_crashed"} => OrderAsClaimed

\* C11 on the ships that all have a name: there it holds
C11_TotalOrderWhenNamed ==
    (/\ pc \in {"compared", "cmp_crashed"}
     /\ \A i \in 1..3 : ship_stack[i].name # NULL) => OrderAsClaimed

-----------------------------------------------------------------------------
(* The class mapping: ship_class and ship_classFromString on every class  *)
(* and on the strings of a small universe                                  *)

\* the display strings of the classes
ClassNames == {ship_class(c) : c \in ShipClass}

\* the strings handed to ship_classFromString: every display string and
\* strings that are none, differing in case, spacing or spelling
ClassStrings ==
    ClassNames \cup {"Unknown", "yacht", "YACHT", "Yacht ", "Heavy  Drone", "HeavyDrone",
                     "armoured transport", "Armored Transport", "Blimp", ""}

InitClass ==
    /\ pc = "class_start"
    /\ ret \in {[fn |-> "none", arg |-> [class |-> c, str |-> str], val |-> 0,
                 warns |-> <<>>] : c \in ShipClass, str \in ClassStrings}
    /\ doc = NoDoc
    /\ ship_stack = NULL
    /\ log = <<>>
    /\ ncalls = 0
    /\ released = NULL
    /\ parse_in = TextNode
    /\ parse_out = NoParseOut
    /\ slot_in = NoSlotIn
    /\ slot_out = NoSlotOut

\* ship_class on a ship of class ret.arg.class, ship_classFromString on the
\* string it returned, and ship_classFromString on the string ret.arg.str
ClassMap ==
    /\ pc = "class_start"
    /\ ret' = [fn |-> "ship_classFromString", arg |-> ret.arg, warns |-> <<>>,
               val |-> [name  |-> ship_class(ret.arg.class),
                        back  |-> ship_classFromString(ship_class(ret.arg.class)),
                        class |-> ship_classFromString(ret.arg.str)]]
    /\ pc' = "class_done"
    /\ UNCHANGED <<doc, ship_stack, log, ncalls, released, parse_in, parse_out,
                   slot_in, slot_out>>

NextClass == ClassMap

SpecClass == InitClass /\ [][NextClass]_vars

\* C13: the class mapping goes both ways: for every class c, the null class
\* included, ship_classFromString(ship_class(c)) = c; two different classes
\* have different display strings; a string that is no display string maps
\* to the null class, and no error is recorded.
C13_ClassRoundTrip ==
    pc = "class_done" =>
        /\ ret.val.back = ret.arg.class
        /\ \A d \in ShipClass \ {ret.arg.class} : ship_class(d) # ret.val.name
        /\ ret.arg.str \notin ClassNames => ret.val.class = SHIP_CLASS_NULL
        /\ ret.arg.str \in ClassNames => ship_class(ret.val.class) = ret.arg.str
        /\ log = <<>>

C13_Witness ==
    /\ pc = "class_done"
    /\ ret.arg.class = SHIP_CLASS_ARMOURED_TRANSPORT
    /\ ret.val.name = "Armoured Transport"
    /\ ret.val.back = SHIP_CLASS_ARMOURED_TRANSPORT
    /\ ret.arg.str = "armoured transport"
    /\ ret.val.class = SHIP_CLASS_NULL

-----------------------------------------------------------------------------
(* The Lua binding of a faction's standing (src/src/nlua_faction.c)        *)

\* the factions of the scripts and the standings the player can have
Factions == {"Empire", "Pirate", "Trader", "Independent"}

Standings == (0 - 20)..20

\* faction_getStanding( mod ): the human readable standing
faction_getStanding(mod) ==
    IF mod < 0 THEN "Enemy" ELSE IF mod = 0 THEN "Neutral" ELSE "Friendly"

\* lua_pushnumber / lua_pushstring: the value goes on top of the stack
lua_push(stack, v) == Append(stack, v)

\* a C function that returns n hands the n topmost values to the script
lua_results(stack, n) == SubSeq(stack, Len(stack) - n + 1, Len(stack))

InitLua ==
    /\ pc = "lua_start"
    /\ ret \in {[fn |-> "none", arg |-> [f |-> f, standing |-> n], val |-> <<>>,
                 warns |-> <<>>] : f \in Factions, n \in Standings}
    /\ doc = NoDoc
    /\ ship_stack = NULL
    /\ log = <<>>
    /\ ncalls = 0
    /\ released = NULL
    /\ parse_in = TextNode
    /\ parse_out = NoParseOut
    /\ slot_in = NoSlotIn
    /\ slot_out = NoSlotOut

\* factionL_playerstanding( L ) called as f:playerStanding(): ret.arg.f is
\* the faction at index 1, ret.arg.standing what faction_getPlayer returns
\* for it, ret.val the values the script receives
factionL_playerstanding ==
    /\ pc = "lua_start"
    /\ ret' = [fn |-> "factionL_playerstanding", arg |-> ret.arg, warns |-> <<>>,
               val |-> lua_results(
                           lua_push(lua_push(<<ret.arg.f>>, ret.arg.standing),
                                    faction_getStanding(ret.arg.standing)),
                           1)]
    /\ pc' = "lua_done"
    /\ UNCHANGED <<doc, ship_stack, log, ncalls, released, parse_in, parse_out,
                   slot_in, slot_out>>

NextLua == factionL_playerstanding

SpecLua == InitLua /\ [][NextLua]_vars

\* C14: playerStanding() returns to the script both the number of the
\* player's standing with the faction and the human readable string.
C14_ReturnsBoth ==
    pc = "lua_done" =>
        ret.val = <<ret.arg.standing, faction_getStanding(ret.arg.standing)>>

\* what the script does receive: the string alone
C14_ReturnsStringOnly ==
    pc = "lua_done" => ret.val = <<faction_getStanding(ret.arg.standing)>>

=============================================================================
